---- MODULE Spec2Model ----
(***************************************************************************)
(* Task Manager (Flask + MongoDB), src/app.py.                             *)
(*                                                                         *)
(* State: the six MongoDB collections, the client's session cookie, and    *)
(* the last request with its response.  One action per route handler.      *)
(*                                                                         *)
(* Text is a sequence of runs [ch, n] (n copies of ch), so that strip()    *)
(* and len() are computed on 100-character titles without spelling them    *)
(* out.  A run whose ch is a word ("Pending") stands for that literal; the *)
(* code never measures the length of such a value.                         *)
(* datetime.utcnow() stamps are left out: a collection kept as a sequence  *)
(* is in insertion order, which is the order of its timestamps.            *)
(***************************************************************************)
EXTENDS Integers, Sequences, FiniteSets, TLC

\* ---------------------------------------------------------------- constants
MAX_TITLE == 100
MAX_DESCRIPTION == 5000
MAX_PROJECT_NAME == 80
MAX_PROJECT_DESCRIPTION == 2000
MAX_COMMENT == 3000
MAX_HOURS == 999
MIN_HOURS == 0
OBJECTID_HEX_LEN == 24

\* ------------------------------------------------------------------- bounds
MaxTasks == 1          \* tasks ever created
MaxHistory == 2        \* history entries
MaxNotifs == 2         \* notifications
MaxComments == 1       \* comments
MaxNewProjects == 1    \* projects ever added by /project/add
MaxStatsTasks == 2     \* tasks stored when the dashboard is asked for
MaxRaceHistory == 4    \* history entries, with requests served concurrently

\* --------------------------------------------------------------------- text
\* Python None, as a value comparable with every text and every ObjectId.
None == <<[ch |-> "", n |-> 0]>>

Empty == <<>>
Run(c, k) == <<[ch |-> c, n |-> k]>>
Txt(w) == Run(w, 1)
Sp(k) == Run(" ", k)

Whitespace == {" "}

RECURSIVE StrLen(_)
\* len(s)
StrLen(s) == IF s = <<>> THEN 0 ELSE Head(s).n + StrLen(Tail(s))

RECURSIVE LStrip(_)
LStrip(s) ==
    IF s = <<>> THEN s
    ELSE IF Head(s).ch \in Whitespace THEN LStrip(Tail(s)) ELSE s

RECURSIVE RStrip(_)
RStrip(s) ==
    IF s = <<>> THEN s
    ELSE IF s[Len(s)].ch \in Whitespace THEN RStrip(SubSeq(s, 1, Len(s) - 1)) ELSE s

\* s.strip()
Strip(s) == RStrip(LStrip(s))

\* Python truthiness of a text, an id or None: `not s`
Falsy(s) == s = None \/ s = Empty

\* ---------------------------------------------------------------- ObjectId
HexLower == {"0", "1", "2", "3", "4", "5", "6", "7", "8", "9", "a", "b", "c", "d", "e", "f"}
HexChars == HexLower \cup {"A", "B", "C", "D", "E", "F"}

LowerCh(c) ==
    CASE c = "A" -> "a" [] c = "B" -> "b" [] c = "C" -> "c"
      [] c = "D" -> "d" [] c = "E" -> "e" [] c = "F" -> "f" [] OTHER -> c

RECURSIVE Merge(_)
\* adjacent runs of one character are one run
Merge(s) ==
    IF Len(s) < 2 THEN s
    ELSE IF s[1].ch = s[2].ch
         THEN Merge(<<[ch |-> s[1].ch, n |-> s[1].n + s[2].n]>> \o SubSeq(s, 3, Len(s)))
         ELSE <<s[1]>> \o Merge(Tail(s))

\* ObjectId(s) for 24 hex characters; str() of it is the lower-case hex.
ObjectId(s) == Merge([i \in DOMAIN s |-> [ch |-> LowerCh(s[i].ch), n |-> s[i].n]])

\* _oid(s): the ObjectId, or None if s is empty, None or not 24 hex characters
_oid(s) ==
    IF Falsy(s) THEN None
    ELSE LET t == Strip(s) IN
         IF StrLen(t) # OBJECTID_HEX_LEN \/ ~(\A i \in DOMAIN t : t[i].ch \in HexChars)
         THEN None
         ELSE ObjectId(t)

\* the k-th ObjectId the driver hands out in collection c ("a" users,
\* "b" projects, "c" tasks): 22 zeros, the collection digit, then k
NewId(c, k) == Run("0", 22) \o Run(c, 1) \o Run(CHOOSE d \in HexLower : d = ToString(k), 1)

\* _validate_length with the limit off by one
_validate_length_lax(s, max_len, field_name) ==
    LET s1 == Strip(IF s = None THEN Empty ELSE s)
    IN IF StrLen(s1) > max_len + 1
       THEN [ok |-> FALSE, val |-> field_name \o " is too long."]
       ELSE [ok |-> TRUE, val |-> s1]

\* _validate_length(s, max_len, field_name): (ok, stripped s or the message)
_validate_length(s, max_len, field_name) ==
    LET s0 == IF s = None THEN Empty ELSE s
        s1 == Strip(s0)
    IN IF StrLen(s1) > max_len
       THEN [ok |-> FALSE,
             val |-> field_name \o " must be at most " \o ToString(max_len)
                     \o " characters (got " \o ToString(StrLen(s1)) \o ")."]
       ELSE [ok |-> TRUE, val |-> s1]

\* float(s) on the numerals the requests use; any other text is a ValueError
Numerals == ("0" :> 0) @@ ("8" :> 8) @@ ("999" :> 999) @@ ("1000" :> 1000)

Float(s) ==
    IF Len(s) = 1 /\ s[1].n = 1 /\ s[1].ch \in DOMAIN Numerals
    THEN [ok |-> TRUE, val |-> Numerals[s[1].ch]]
    ELSE [ok |-> FALSE, val |-> 0]

\* a date, and a datetime at 00:00:00 of a date, by day number
Date(day) == <<[ch |-> "date", n |-> day]>>
Midnight(day) == <<[ch |-> "datetime", n |-> day]>>

\* datetime.strptime(s, "%Y-%m-%d").date() on the dates the requests use;
\* any other text is a ValueError
IsoDates == ("2024-01-01" :> 19723) @@ ("2024-01-02" :> 19724)

Strptime(s) ==
    IF Len(s) = 1 /\ s[1].n = 1 /\ s[1].ch \in DOMAIN IsoDates
    THEN [ok |-> TRUE, val |-> Date(IsoDates[s[1].ch])]
    ELSE [ok |-> FALSE, val |-> None]

\* _date_for_mongo(d) for d a date, a datetime or None
_date_for_mongo(d) ==
    IF d = None THEN None
    ELSE IF d[1].ch = "datetime" THEN d
    ELSE Midnight(d[1].n)

\* ----------------------------------------------------------------- state
VARIABLES
    session,        \* session["user_id"], or None when the key is absent
    projects,       \* db.projects: _id -> document
    tasks,          \* db.tasks: _id -> document
    comments,       \* db.comments, in insertion order
    history,        \* db.history, in insertion order
    notifications,  \* db.notifications, in insertion order
    nextTask,       \* how many task ids the driver has handed out, plus one
    nextProject,    \* the same for project ids
    last,           \* the last request served and its response: [op, resp]
    req             \* the /task/delete request in flight, when served stepwise

stores == <<projects, tasks, comments, history, notifications, nextTask, nextProject>>
vars == <<session, projects, tasks, comments, history, notifications, nextTask,
          nextProject, last, req>>

\* seed_collections(): three users, three projects
users ==
    { [_id |-> NewId("a", 1), username |-> Txt("admin"), password |-> Txt("admin")],
      [_id |-> NewId("a", 2), username |-> Txt("user1"), password |-> Txt("user1")],
      [_id |-> NewId("a", 3), username |-> Txt("user2"), password |-> Txt("user2")] }

SeedProjects ==
    (NewId("b", 1) :> [name |-> Txt("Demo Project"), description |-> Txt("Sample project")])
    @@ (NewId("b", 2) :> [name |-> Txt("Alpha Project"), description |-> Txt("Main project")])
    @@ (NewId("b", 3) :> [name |-> Txt("Beta Project"), description |-> Txt("Secondary project")])

NumSeedProjects == 3

UserId(name) == (CHOOSE u \in users : u.username = Txt(name))._id

\* a well-formed identifier that no collection ever holds
UnknownId == Run("f", 24)

\* collection.find_one({"_id": oid}) on a collection kept as _id -> document:
\* <<document>>, or <<>> for None
NoDoc == <<>>
find_one(coll, oid) == IF oid \in DOMAIN coll THEN <<coll[oid]>> ELSE NoDoc

\* get_current_user() for a session cookie: <<user document>>, or <<>> for None
get_current_user(sess) ==
    IF sess = None THEN NoDoc
    ELSE LET uid == _oid(sess) IN
         IF Falsy(uid) THEN NoDoc
         ELSE IF \E u \in users : u._id = uid
              THEN <<CHOOSE u \in users : u._id = uid>>
              ELSE NoDoc

\* ------------------------------------------------------------- responses
Redirect(to, cat, msg) == [code |-> 302, to |-> to, cat |-> cat, msg |-> msg, body |-> <<>>]
Json(code, err, body) == [code |-> code, to |-> "", cat |-> IF err = "" THEN "" ELSE "error",
                          msg |-> err, body |-> body]
Page(cat, msg) == [code |-> 200, to |-> "", cat |-> cat, msg |-> msg, body |-> <<>>]

\* login_required: what an unauthenticated request gets
LoginRedirect == Redirect("login", "error", "Please sign in to continue.")

Reply(op, resp) == last' = [op |-> op, resp |-> resp]

Idle == [pc |-> "idle"]

Init ==
    /\ session \in {None, Txt("guest"), UnknownId}
    /\ projects = SeedProjects
    /\ tasks = <<>>
    /\ comments = <<>>
    /\ history = <<>>
    /\ notifications = <<>>
    /\ nextTask = 1
    /\ nextProject = NumSeedProjects + 1
    /\ last = [op |-> "start", resp |-> Page("", "")]
    /\ req = Idle

\* ----------------------------------------------------------------- auth
\* Login without the password in the query
LoginAnyPassword(form) ==
    /\ IF get_current_user(session) # NoDoc
       THEN /\ Reply("login", Redirect("dashboard", "", ""))
            /\ UNCHANGED session
       ELSE LET found == {u \in users : u.username = Strip(form.username)}
            IN IF found # {}
               THEN /\ session' = (CHOOSE u \in found : TRUE)._id
                    /\ Reply("login", Redirect("dashboard", "success", "Signed in successfully."))
               ELSE /\ UNCHANGED session
                    /\ Reply("login", Page("error", "Invalid username or password."))
    /\ UNCHANGED <<stores, req>>

\* POST /login
Login(form) ==
    /\ IF get_current_user(session) # NoDoc
       THEN /\ Reply("login", Redirect("dashboard", "", ""))
            /\ UNCHANGED session
       ELSE LET username == Strip(form.username)
                password == form.password
                found == {u \in users : u.username = username /\ u.password = password}
            IN IF found # {}
               THEN /\ session' = (CHOOSE u \in found : TRUE)._id
                    /\ Reply("login", Redirect("dashboard", "success", "Signed in successfully."))
               ELSE /\ UNCHANGED session
                    /\ Reply("login", Page("error", "Invalid username or password."))
    /\ UNCHANGED <<stores, req>>

\* GET /logout
Logout ==
    /\ IF get_current_user(session) = NoDoc
       THEN /\ Reply("logout", LoginRedirect)
            /\ UNCHANGED session
       ELSE /\ session' = None
            /\ Reply("logout", Redirect("login", "info", "Signed out."))
    /\ UNCHANGED <<stores, req>>

\* ------------------------------------------------------- history, notices
\* _add_history with old_value and new_value exchanged
_add_history_swapped(h, sess, task_id, action, old_value, new_value) ==
    Append(h, [task_id |-> task_id,
               user_id |-> get_current_user(sess)[1]._id,
               action |-> action,
               old_value |-> new_value,
               new_value |-> old_value])

\* _add_history(task_id, action, old_value, new_value) on history h
_add_history(h, sess, task_id, action, old_value, new_value) ==
    Append(h, [task_id |-> task_id,
               user_id |-> get_current_user(sess)[1]._id,
               action |-> action,
               old_value |-> old_value,
               new_value |-> new_value])

\* _add_notification that skips a notification the user already has
_add_notification_once(ns, user_id, message, type_) ==
    IF \E i \in DOMAIN ns : ns[i].user_id = user_id /\ ns[i].message = message /\ ns[i].type = type_
    THEN ns
    ELSE Append(ns, [user_id |-> user_id, message |-> message, type |-> type_, read |-> FALSE])

\* _add_notification(user_id, message, type_) on notifications ns
_add_notification(ns, user_id, message, type_) ==
    Append(ns, [user_id |-> user_id, message |-> message, type |-> type_, read |-> FALSE])

\* request.form.get(key, default) for a field that is None when absent
FormGet(v, default) == IF v = None THEN default ELSE v

\* ---------------------------------------------------------------- tasks
Dash(tab, cat, msg) == Redirect(tab, cat, msg)

\* The field checks task_add and task_update share (title, description,
\* hours, due date, project, assignee).  prevDue is what a date that does not
\* parse falls back to: None on create, the stored due date on update.
TaskFields(form, prevDue) ==
    LET title_raw == Strip(form.task_title)
        t == _validate_length(title_raw, MAX_TITLE, "Title")
        d == _validate_length(form.task_description, MAX_DESCRIPTION, "Description")
        h == IF Falsy(form.task_hours) THEN [ok |-> TRUE, val |-> 0] ELSE Float(form.task_hours)
        due == form.task_due_date
        p == IF Falsy(due) THEN [ok |-> TRUE, val |-> None]
             ELSE Strptime(due)
    IN  IF ~t.ok THEN [ok |-> FALSE, resp |-> Dash("tasks", "error", t.val)]
        ELSE IF t.val = Empty THEN [ok |-> FALSE, resp |-> Dash("tasks", "error", "Title is required.")]
        ELSE IF ~d.ok THEN [ok |-> FALSE, resp |-> Dash("tasks", "error", d.val)]
        ELSE IF ~h.ok THEN
            [ok |-> FALSE, resp |-> Dash("tasks", "error", "Estimated hours must be a number between 0 and 999.")]
        ELSE IF ~(MIN_HOURS <= h.val /\ h.val <= MAX_HOURS) THEN
            [ok |-> FALSE, resp |-> Dash("tasks", "error", "Estimated hours must be between 0 and 999.")]
        ELSE [ok |-> TRUE,
              title |-> t.val,
              description |-> d.val,
              hours_val |-> h.val,
              due_date |-> _date_for_mongo(IF p.ok THEN p.val ELSE prevDue),
              project_id |-> _oid(FormGet(form.task_project_id, Empty)),
              assigned_to |-> _oid(FormGet(form.task_assigned_to, Empty))]

\* the status and the priority task_add stores
AddStatus(form) == FormGet(form.task_status, Txt("Pending"))
AddPriority(form) == FormGet(form.task_priority, Txt("Medium"))

\* POST /task/add
TaskAdd(form) ==
    /\ UNCHANGED <<session, req, projects, comments, nextProject>>
    /\ IF get_current_user(session) = NoDoc
       THEN Reply("task_add", LoginRedirect)
            /\ UNCHANGED <<tasks, history, notifications, nextTask>>
       ELSE LET f == TaskFields(form, None) IN
            IF ~f.ok
            THEN Reply("task_add", f.resp)
                 /\ UNCHANGED <<tasks, history, notifications, nextTask>>
            ELSE LET task_id == NewId("c", nextTask)
                     task_doc == [title |-> f.title,
                                  description |-> f.description,
                                  status |-> AddStatus(form),
                                  priority |-> AddPriority(form),
                                  project_id |-> f.project_id,
                                  assigned_to |-> f.assigned_to,
                                  due_date |-> f.due_date,
                                  estimated_hours |-> f.hours_val,
                                  actual_hours |-> 0,
                                  created_by |-> get_current_user(session)[1]._id]
                 IN /\ nextTask <= MaxTasks
                    /\ Len(history) < MaxHistory
                    /\ Falsy(f.assigned_to) \/ Len(notifications) < MaxNotifs
                    /\ tasks' = tasks @@ (task_id :> task_doc)
                    /\ nextTask' = nextTask + 1
                    /\ history' = _add_history(history, session, task_id, "CREATED", Empty, f.title)
                    /\ notifications' =
                          IF ~Falsy(f.assigned_to)
                          THEN _add_notification(notifications, f.assigned_to,
                                                 <<"New task assigned: ", f.title>>, "task_assigned")
                          ELSE notifications
                    /\ Reply("task_add", Dash("tasks", "success", "Task created."))

\* the status and the priority task_update stores
UpdateStatus(form) == FormGet(form.task_status, Txt("Pending"))
UpdatePriority(form) == FormGet(form.task_priority, Txt("Medium"))

\* task_update's test for a STATUS_CHANGED entry, and the entry's new value
StatusDiffers(old_status, form) == old_status # form.task_status
StatusLogged(form) == FormGet(form.task_status, Empty)

\* the history task_update leaves: one entry per detected change
UpdateHistory(h, sess, oid, task, form, title) ==
    LET old_status == task.status
        old_title == task.title
        h1 == IF StatusDiffers(old_status, form)
              THEN _add_history(h, sess, oid, "STATUS_CHANGED",
                                IF Falsy(old_status) THEN Empty ELSE old_status,
                                StatusLogged(form))
              ELSE h
    IN IF old_title # title
       THEN _add_history(h1, sess, oid, "TITLE_CHANGED",
                         IF Falsy(old_title) THEN Empty ELSE old_title, title)
       ELSE h1

\* POST /task/update/<task_id>
TaskUpdate(task_id, form) ==
    LET oid == _oid(task_id)
        found == find_one(tasks, oid)
    IN
    /\ UNCHANGED <<session, req, projects, comments, nextProject, nextTask>>
    /\ IF get_current_user(session) = NoDoc
       THEN Reply("task_update", LoginRedirect) /\ UNCHANGED <<tasks, history, notifications>>
       ELSE IF Falsy(oid)
       THEN Reply("task_update", Dash("tasks", "error", "Invalid task."))
            /\ UNCHANGED <<tasks, history, notifications>>
       ELSE IF found = NoDoc
       THEN Reply("task_update", Dash("tasks", "error", "Task not found."))
            /\ UNCHANGED <<tasks, history, notifications>>
       ELSE LET task == found[1]
                f == TaskFields(form, task.due_date)
            IN IF ~f.ok
               THEN Reply("task_update", f.resp) /\ UNCHANGED <<tasks, history, notifications>>
               ELSE LET h2 == UpdateHistory(history, session, oid, task, form, f.title) IN
                    /\ Len(h2) <= MaxHistory
                    /\ Falsy(f.assigned_to) \/ Len(notifications) < MaxNotifs
                    /\ tasks' = [tasks EXCEPT ![oid] =
                                   [@ EXCEPT !.title = f.title,
                                             !.description = f.description,
                                             !.status = UpdateStatus(form),
                                             !.priority = UpdatePriority(form),
                                             !.project_id = f.project_id,
                                             !.assigned_to = f.assigned_to,
                                             !.due_date = f.due_date,
                                             !.estimated_hours = f.hours_val]]
                    /\ history' = h2
                    /\ notifications' =
                          IF ~Falsy(f.assigned_to)
                          THEN _add_notification(notifications, f.assigned_to,
                                                 <<"Task updated: ", f.title>>, "task_updated")
                          ELSE notifications
                    /\ Reply("task_update", Dash("tasks", "success", "Task updated."))

\* collection.delete_one({"_id": oid})
delete_one(coll, oid) == [i \in DOMAIN coll \ {oid} |-> coll[i]]

\* task_delete that also removes the comments and the history of the task
TaskDeleteCascade(task_id) ==
    LET oid == _oid(task_id)
        found == find_one(tasks, oid)
    IN
    /\ UNCHANGED <<session, req, projects, notifications, nextProject, nextTask>>
    /\ IF get_current_user(session) = NoDoc
       THEN Reply("task_delete", LoginRedirect) /\ UNCHANGED <<tasks, history, comments>>
       ELSE IF Falsy(oid) \/ found = NoDoc
       THEN Reply("task_delete", Dash("tasks", "error", "Task not found."))
            /\ UNCHANGED <<tasks, history, comments>>
       ELSE /\ history' = SelectSeq(history, LAMBDA e : e.task_id # oid)
            /\ comments' = SelectSeq(comments, LAMBDA c : c.task_id # oid)
            /\ tasks' = delete_one(tasks, oid)
            /\ Reply("task_delete", Dash("tasks", "success", "Task deleted."))

\* POST /task/delete/<task_id>
TaskDelete(task_id) ==
    LET oid == _oid(task_id)
        found == find_one(tasks, oid)
    IN
    /\ UNCHANGED <<session, req, projects, comments, notifications, nextProject, nextTask>>
    /\ IF get_current_user(session) = NoDoc
       THEN Reply("task_delete", LoginRedirect) /\ UNCHANGED <<tasks, history>>
       ELSE IF Falsy(oid)
       THEN Reply("task_delete", Dash("tasks", "error", "Invalid task."))
            /\ UNCHANGED <<tasks, history>>
       ELSE IF found = NoDoc
       THEN Reply("task_delete", Dash("tasks", "error", "Task not found."))
            /\ UNCHANGED <<tasks, history>>
       ELSE /\ Len(history) < MaxHistory
            /\ history' = _add_history(history, session, oid, "DELETED", found[1].title, Empty)
            /\ tasks' = delete_one(tasks, oid)
            /\ Reply("task_delete", Dash("tasks", "success", "Task deleted."))

\* /task/delete served as its three database calls, one step each.  The
\* request carries the session cookie it was sent with.
TaskDeleteBegin(task_id) ==
    LET oid == _oid(task_id)
        found == find_one(tasks, oid)
    IN
    /\ req = Idle
    /\ UNCHANGED <<session, stores>>
    /\ IF get_current_user(session) = NoDoc
       THEN Reply("task_delete", LoginRedirect) /\ UNCHANGED req
       ELSE IF Falsy(oid)
       THEN Reply("task_delete", Dash("tasks", "error", "Invalid task.")) /\ UNCHANGED req
       ELSE IF found = NoDoc
       THEN Reply("task_delete", Dash("tasks", "error", "Task not found.")) /\ UNCHANGED req
       ELSE /\ Len(history) < MaxHistory
            /\ req' = [pc |-> "history", sess |-> session, oid |-> oid,
                        title |-> found[1].title]
            /\ UNCHANGED last

\* the record removed where the entry should be written
TaskDeleteHistoryLate ==
    /\ req.pc = "history"
    /\ tasks' = delete_one(tasks, req.oid)
    /\ req' = [req EXCEPT !.pc = "remove"]
    /\ UNCHANGED <<session, projects, history, comments, notifications, nextTask, nextProject, last>>

\* _add_history(oid, "DELETED", title, "")
TaskDeleteHistory ==
    /\ req.pc = "history"
    /\ history' = _add_history(history, req.sess, req.oid, "DELETED", req.title, Empty)
    /\ req' = [req EXCEPT !.pc = "remove"]
    /\ UNCHANGED <<session, projects, tasks, comments, notifications, nextTask, nextProject, last>>

\* get_db().tasks.delete_one({"_id": oid}), then the redirect
TaskDeleteRemove ==
    /\ req.pc = "remove"
    /\ tasks' = delete_one(tasks, req.oid)
    /\ Reply("task_delete", Dash("tasks", "success", "Task deleted."))
    /\ req' = Idle
    /\ UNCHANGED <<session, projects, comments, history, notifications, nextTask, nextProject>>

\* ---------------------------------------------- requests served together
\* app.run() serves each request on a thread of its own, so the database
\* calls of two handlers interleave.  Two requests are in flight at most;
\* req is then [pc |-> "race", slots |-> slot -> request], a request being
\* Idle or what the handler holds in its local variables.
Slots == {1, 2}

SlotsOf(r) == IF r = Idle THEN [k \in Slots |-> Idle] ELSE r.slots

PutSlot(r, k, v) ==
    LET s == [SlotsOf(r) EXCEPT ![k] = v]
    IN IF \A j \in Slots : s[j] = Idle THEN Idle ELSE [pc |-> "race", slots |-> s]

\* the document update_one leaves: the "$set" of task_update
SetTask(doc, f, form) ==
    [doc EXCEPT !.title = f.title,
                !.description = f.description,
                !.status = UpdateStatus(form),
                !.priority = UpdatePriority(form),
                !.project_id = f.project_id,
                !.assigned_to = f.assigned_to,
                !.due_date = f.due_date,
                !.estimated_hours = f.hours_val]

\* task_update up to its update_one: the look-up and the field checks
RaceUpdateBegin(k, task_id, form) ==
    LET oid == _oid(task_id)
        found == find_one(tasks, oid)
    IN
    /\ SlotsOf(req)[k] = Idle
    /\ UNCHANGED <<session, stores>>
    /\ IF get_current_user(session) = NoDoc
       THEN Reply("task_update", LoginRedirect) /\ UNCHANGED req
       ELSE IF Falsy(oid)
       THEN Reply("task_update", Dash("tasks", "error", "Invalid task.")) /\ UNCHANGED req
       ELSE IF found = NoDoc
       THEN Reply("task_update", Dash("tasks", "error", "Task not found.")) /\ UNCHANGED req
       ELSE LET f == TaskFields(form, found[1].due_date)
            IN IF ~f.ok
               THEN Reply("task_update", f.resp) /\ UNCHANGED req
               ELSE /\ req' = PutSlot(req, k, [pc |-> "write", kind |-> "update",
                                               sess |-> session, oid |-> oid,
                                               task |-> found[1], form |-> form, f |-> f])
                    /\ UNCHANGED last

\* an update_one that sets only the fields the request changed in what it read
RaceUpdateWriteChanged(k) ==
    LET r == SlotsOf(req)[k]
        new == SetTask(r.task, r.f, r.form)
    IN
    /\ r.pc = "write" /\ r.kind = "update"
    /\ tasks' = IF r.oid \in DOMAIN tasks
                 THEN [tasks EXCEPT ![r.oid] =
                        [fld \in DOMAIN @ |-> IF new[fld] # r.task[fld] THEN new[fld] ELSE @[fld]]]
                 ELSE tasks
    /\ req' = PutSlot(req, k, [r EXCEPT !.pc = "log"])
    /\ UNCHANGED <<session, projects, comments, history, notifications, nextTask, nextProject, last>>

\* get_db().tasks.update_one({"_id": oid}, {"$set": {...}}): one document,
\* all fields at once; no document when the task is gone
RaceUpdateWrite(k) ==
    LET r == SlotsOf(req)[k] IN
    /\ r.pc = "write" /\ r.kind = "update"
    /\ tasks' = IF r.oid \in DOMAIN tasks
                 THEN [tasks EXCEPT ![r.oid] = SetTask(@, r.f, r.form)]
                 ELSE tasks
    /\ req' = PutSlot(req, k, [r EXCEPT !.pc = "log"])
    /\ UNCHANGED <<session, projects, comments, history, notifications, nextTask, nextProject, last>>

\* task_update after its update_one: the history entries, the notification
\* and the redirect (none of them reads or writes db.tasks)
RaceUpdateLog(k) ==
    LET r == SlotsOf(req)[k]
        h2 == UpdateHistory(history, r.sess, r.oid, r.task, r.form, r.f.title)
    IN
    /\ r.pc = "log" /\ r.kind = "update"
    /\ Len(h2) <= MaxRaceHistory
    /\ Falsy(r.f.assigned_to) \/ Len(notifications) < MaxNotifs
    /\ history' = h2
    /\ notifications' =
          IF ~Falsy(r.f.assigned_to)
          THEN _add_notification(notifications, r.f.assigned_to,
                                 <<"Task updated: ", r.f.title>>, "task_updated")
          ELSE notifications
    /\ Reply("task_update", Dash("tasks", "success", "Task updated."))
    /\ req' = PutSlot(req, k, Idle)
    /\ UNCHANGED <<session, projects, tasks, comments, nextTask, nextProject>>

\* task_delete up to its _add_history: the look-up
RaceDeleteBegin(k, task_id) ==
    LET oid == _oid(task_id)
        found == find_one(tasks, oid)
    IN
    /\ SlotsOf(req)[k] = Idle
    /\ UNCHANGED <<session, stores>>
    /\ IF get_current_user(session) = NoDoc
       THEN Reply("task_delete", LoginRedirect) /\ UNCHANGED req
       ELSE IF Falsy(oid)
       THEN Reply("task_delete", Dash("tasks", "error", "Invalid task.")) /\ UNCHANGED req
       ELSE IF found = NoDoc
       THEN Reply("task_delete", Dash("tasks", "error", "Task not found.")) /\ UNCHANGED req
       ELSE /\ req' = PutSlot(req, k, [pc |-> "history", kind |-> "delete",
                                       sess |-> session, oid |-> oid,
                                       title |-> found[1].title])
            /\ UNCHANGED last

\* _add_history(oid, "DELETED", title, "")
RaceDeleteHistory(k) ==
    LET r == SlotsOf(req)[k] IN
    /\ r.pc = "history" /\ r.kind = "delete"
    /\ Len(history) < MaxRaceHistory
    /\ history' = _add_history(history, r.sess, r.oid, "DELETED", r.title, Empty)
    /\ req' = PutSlot(req, k, [r EXCEPT !.pc = "remove"])
    /\ UNCHANGED <<session, projects, tasks, comments, notifications, nextTask, nextProject, last>>

\* get_db().tasks.delete_one({"_id": oid}), then the redirect
RaceDeleteRemove(k) ==
    LET r == SlotsOf(req)[k] IN
    /\ r.pc = "remove" /\ r.kind = "delete"
    /\ tasks' = delete_one(tasks, r.oid)
    /\ Reply("task_delete", Dash("tasks", "success", "Task deleted."))
    /\ req' = PutSlot(req, k, Idle)
    /\ UNCHANGED <<session, projects, comments, history, notifications, nextTask, nextProject>>

\* -------------------------------------------------------------- projects
ProjectFields(form) ==
    LET name_raw == Strip(form.project_name)
        nm == _validate_length(name_raw, MAX_PROJECT_NAME, "Project name")
        d == _validate_length(form.project_description, MAX_PROJECT_DESCRIPTION, "Project description")
    IN  IF ~nm.ok THEN [ok |-> FALSE, resp |-> Dash("projects", "error", nm.val)]
        ELSE IF nm.val = Empty
             THEN [ok |-> FALSE, resp |-> Dash("projects", "error", "Project name is required.")]
        ELSE IF ~d.ok THEN [ok |-> FALSE, resp |-> Dash("projects", "error", d.val)]
        ELSE [ok |-> TRUE, name |-> nm.val, description |-> d.val]

\* POST /project/add
ProjectAdd(form) ==
    /\ UNCHANGED <<session, req, tasks, comments, history, notifications, nextTask>>
    /\ IF get_current_user(session) = NoDoc
       THEN Reply("project_add", LoginRedirect) /\ UNCHANGED <<projects, nextProject>>
       ELSE LET f == ProjectFields(form) IN
            IF ~f.ok
            THEN Reply("project_add", f.resp) /\ UNCHANGED <<projects, nextProject>>
            ELSE /\ nextProject <= NumSeedProjects + MaxNewProjects
                 /\ projects' = projects @@
                        (NewId("b", nextProject) :> [name |-> f.name, description |-> f.description])
                 /\ nextProject' = nextProject + 1
                 /\ Reply("project_add", Dash("projects", "success", "Project created."))

\* POST /project/update/<project_id>
ProjectUpdate(project_id, form) ==
    LET oid == _oid(project_id)
    IN
    /\ UNCHANGED <<session, req, tasks, comments, history, notifications, nextTask, nextProject>>
    /\ IF get_current_user(session) = NoDoc
       THEN Reply("project_update", LoginRedirect) /\ UNCHANGED projects
       ELSE IF Falsy(oid)
       THEN Reply("project_update", Dash("projects", "error", "Invalid project.")) /\ UNCHANGED projects
       ELSE IF find_one(projects, oid) = NoDoc
       THEN Reply("project_update", Dash("projects", "error", "Project not found."))
            /\ UNCHANGED projects
       ELSE LET f == ProjectFields(form) IN
            IF ~f.ok
            THEN Reply("project_update", f.resp) /\ UNCHANGED projects
            ELSE /\ projects' = [projects EXCEPT ![oid] = [name |-> f.name, description |-> f.description]]
                 /\ Reply("project_update", Dash("projects", "success", "Project updated."))

\* POST /project/delete/<project_id>
ProjectDelete(project_id) ==
    LET oid == _oid(project_id)
    IN
    /\ UNCHANGED <<session, req, tasks, comments, history, notifications, nextTask, nextProject>>
    /\ IF get_current_user(session) = NoDoc
       THEN Reply("project_delete", LoginRedirect) /\ UNCHANGED projects
       ELSE IF Falsy(oid)
       THEN Reply("project_delete", Dash("projects", "error", "Invalid project.")) /\ UNCHANGED projects
       ELSE /\ projects' = delete_one(projects, oid)
            /\ Reply("project_delete", Dash("projects", "success", "Project deleted."))

\* -------------------------------------------------------------- comments
\* comment_add without the look-up of the task
CommentAddUnchecked(form) ==
    LET oid == _oid(Strip(form.comment_task_id))
        t == _validate_length(Strip(form.comment_text), MAX_COMMENT, "Comment text")
    IN
    /\ UNCHANGED <<session, req, projects, tasks, history, notifications, nextTask, nextProject>>
    /\ IF get_current_user(session) = NoDoc
       THEN Reply("comment_add", LoginRedirect) /\ UNCHANGED comments
       ELSE IF Falsy(oid) \/ ~t.ok \/ t.val = Empty
       THEN Reply("comment_add", Dash("comments", "error", "Invalid comment.")) /\ UNCHANGED comments
       ELSE /\ Len(comments) < MaxComments
            /\ comments' = Append(comments, [task_id |-> oid,
                                              user_id |-> get_current_user(session)[1]._id,
                                              comment_text |-> t.val])
            /\ Reply("comment_add", Dash("comments", "success", "Comment added."))

\* POST /comment/add
CommentAdd(form) ==
    LET oid == _oid(Strip(form.comment_task_id))
        text_raw == Strip(form.comment_text)
        t == _validate_length(text_raw, MAX_COMMENT, "Comment text")
    IN
    /\ UNCHANGED <<session, req, projects, tasks, history, notifications, nextTask, nextProject>>
    /\ IF get_current_user(session) = NoDoc
       THEN Reply("comment_add", LoginRedirect) /\ UNCHANGED comments
       ELSE IF Falsy(oid)
       THEN Reply("comment_add", Dash("comments", "error", "Invalid task ID (must be 24 hex characters)."))
            /\ UNCHANGED comments
       ELSE IF ~t.ok
       THEN Reply("comment_add", Dash("comments", "error", t.val))
            /\ UNCHANGED comments
       ELSE IF t.val = Empty
       THEN Reply("comment_add", Dash("comments", "error", "Comment cannot be empty."))
            /\ UNCHANGED comments
       ELSE IF find_one(tasks, oid) = NoDoc
       THEN Reply("comment_add", Dash("comments", "error", "Task not found."))
            /\ UNCHANGED comments
       ELSE /\ Len(comments) < MaxComments
            /\ comments' = Append(comments, [task_id |-> oid,
                                              user_id |-> get_current_user(session)[1]._id,
                                              comment_text |-> t.val])
            /\ Reply("comment_add", Dash("comments", "success", "Comment added."))

\* --------------------------------------------------------- notifications
\* update_many that flips the flag instead of setting it
MarkReadToggle(ns, uid) ==
    [i \in DOMAIN ns |-> IF ns[i].user_id = uid THEN [ns[i] EXCEPT !.read = ~@] ELSE ns[i]]

\* update_many without the filter on the owner
MarkReadAll(ns, uid) ==
    [i \in DOMAIN ns |-> [ns[i] EXCEPT !.read = TRUE]]

\* update_many({"user_id": uid}, {"$set": {"read": True}})
MarkRead(ns, uid) ==
    [i \in DOMAIN ns |-> IF ns[i].user_id = uid THEN [ns[i] EXCEPT !.read = TRUE] ELSE ns[i]]

\* POST /notifications/read
NotificationsMarkRead ==
    /\ UNCHANGED <<session, req, projects, tasks, comments, history, nextTask, nextProject>>
    /\ IF get_current_user(session) = NoDoc
       THEN Reply("notifications_mark_read", LoginRedirect) /\ UNCHANGED notifications
       ELSE /\ notifications' = MarkRead(notifications, get_current_user(session)[1]._id)
            /\ Reply("notifications_mark_read", Dash("notifications", "success", "Notifications marked as read."))

\* ------------------------------------------------------------- dashboard
\* db.<collection>.find() on a collection kept as _id -> document: the
\* documents in insertion order, each with its _id
Cursor(coll, c) ==
    LET ids == SelectSeq([k \in 1..9 |-> NewId(c, k)], LAMBDA i : i \in DOMAIN coll)
    IN [j \in DOMAIN ids |-> [_id |-> ids[j], doc |-> coll[ids[j]]]]

\* dd.date() for a datetime
DateOf(dd) == Date(dd[1].n)

\* _get_tasks_for_dashboard(cursor): the fields _compute_stats reads
_get_tasks_for_dashboard(cursor) ==
    [j \in DOMAIN cursor |->
        [id |-> cursor[j]._id,
         title |-> cursor[j].doc.title,
         status |-> cursor[j].doc.status,
         priority |-> cursor[j].doc.priority,
         due_date |-> cursor[j].doc.due_date]]

\* the loop of _compute_stats over tasks i..Len(ts), overdue so far
RECURSIVE OverdueLoop(_, _, _, _)
OverdueLoop(ts, i, today, overdue) ==
    IF i > Len(ts) THEN overdue
    ELSE LET t == ts[i]
             dd == t.due_date
         IN IF dd # None /\ t.status # Txt("Completed")
            THEN LET d == IF dd[1].ch = "datetime" THEN DateOf(dd) ELSE dd
                 IN OverdueLoop(ts, i + 1, today,
                                IF d[1].n < today[1].n THEN overdue + 1 ELSE overdue)
            ELSE OverdueLoop(ts, i + 1, today, overdue)

\* _compute_stats counting a task due today as overdue
_compute_stats_lax(ts, today) ==
    LET total == Len(ts)
        completed == Len(SelectSeq(ts, LAMBDA t : t.status = Txt("Completed")))
    IN [total |-> total,
        completed |-> completed,
        pending |-> total - completed,
        high_priority |-> Len(SelectSeq(ts, LAMBDA t : t.priority \in {Txt("High"), Txt("Critical")})),
        overdue |-> Len(SelectSeq(ts, LAMBDA t : /\ t.due_date # None
                                                  /\ t.status # Txt("Completed")
                                                  /\ t.due_date[1].n <= today[1].n))]

\* _compute_stats(tasks), with today the value of date.today()
_compute_stats(ts, today) ==
    LET total == Len(ts)
        completed == Len(SelectSeq(ts, LAMBDA t : t.status = Txt("Completed")))
    IN [total |-> total,
        completed |-> completed,
        pending |-> total - completed,
        high_priority |-> Len(SelectSeq(ts, LAMBDA t : t.priority \in {Txt("High"), Txt("Critical")})),
        overdue |-> OverdueLoop(ts, 1, today, 0)]

\* GET /dashboard on a day `today`: the response carries the statistics
Dashboard(today) ==
    /\ UNCHANGED <<session, req, stores>>
    /\ IF get_current_user(session) = NoDoc
       THEN Reply("dashboard", LoginRedirect)
       ELSE LET ts == _get_tasks_for_dashboard(Cursor(tasks, "c"))
            IN Reply("dashboard", [code |-> 200, to |-> "", cat |-> "", msg |-> "",
                                   body |-> <<_compute_stats(ts, today)>>])

\* ------------------------------------------------------------------- API
HISTORY_LIMIT == 100

RECURSIVE Reverse(_)
Reverse(q) == IF q = <<>> THEN q ELSE Append(Reverse(Tail(q)), Head(q))

\* cursor.limit(k)
Limit(q, k) == IF Len(q) <= k THEN q ELSE SubSeq(q, 1, k)

\* GET /api/task/<task_id>
ApiTask(task_id) ==
    LET oid == _oid(task_id)
        found == find_one(tasks, oid)
    IN
    /\ UNCHANGED <<session, req, stores>>
    /\ IF get_current_user(session) = NoDoc
       THEN Reply("api_task", LoginRedirect)
       ELSE IF Falsy(oid)
       THEN Reply("api_task", Json(404, "Invalid task", <<>>))
       ELSE IF found = NoDoc
       THEN Reply("api_task", Json(404, "Not found", <<>>))
       ELSE Reply("api_task", Json(200, "", <<[id |-> oid,
                                   title |-> found[1].title,
                                   status |-> found[1].status,
                                   priority |-> found[1].priority,
                                   assigned_to |-> IF Falsy(found[1].assigned_to) THEN Empty
                                                   ELSE found[1].assigned_to]>>))

\* GET /api/comments/<task_id>
ApiComments(task_id) ==
    LET oid == _oid(task_id)
    IN
    /\ UNCHANGED <<session, req, stores>>
    /\ IF get_current_user(session) = NoDoc
       THEN Reply("api_comments", LoginRedirect)
       ELSE IF Falsy(oid)
       THEN Reply("api_comments", Json(200, "", <<>>))
       ELSE Reply("api_comments", Json(200, "", SelectSeq(comments, LAMBDA c : c.task_id = oid)))

\* GET /api/history and /api/history/<task_id> (task_id None on the first)
ApiHistory(task_id) ==
    LET oid == _oid(task_id)
        all == Falsy(task_id) \/ Falsy(oid)
        entries == IF all THEN history ELSE SelectSeq(history, LAMBDA e : e.task_id = oid)
    IN
    /\ UNCHANGED <<session, req, stores>>
    /\ IF get_current_user(session) = NoDoc
       THEN Reply("api_history", LoginRedirect)
       ELSE Reply("api_history", Json(200, "", Limit(Reverse(entries), HISTORY_LIMIT)))

\* ---------------------------------------------------------------- inputs
LoginForms ==
    { [username |-> Sp(1) \o Txt("admin") \o Sp(1), password |-> Txt("admin")],
      [username |-> Txt("admin"), password |-> Txt("nimda")],
      [username |-> Txt("admin"), password |-> Txt("admin") \o Sp(1)],
      [username |-> Txt("user1"), password |-> Txt("admin")] }

TitleA == Sp(1) \o Run("A", 1) \o Sp(1)      \* " A "
Title100 == Sp(1) \o Run("x", MAX_TITLE)      \* a space, then 100 x
Title101 == Run("x", MAX_TITLE + 1)
Blank == Sp(2)

Bogus == Txt("Bogus")

BaseTaskForm ==
    [task_title |-> TitleA, task_description |-> Empty, task_hours |-> None,
     task_due_date |-> Empty, task_project_id |-> Empty, task_assigned_to |-> Empty,
     task_status |-> None, task_priority |-> None]

\* forms that pass validation
GoodTaskForms ==
    { BaseTaskForm,
      [BaseTaskForm EXCEPT !.task_status = Txt("Completed"), !.task_assigned_to = UserId("user1"),
                           !.task_hours = Txt("8")],
      [BaseTaskForm EXCEPT !.task_title = Title100, !.task_status = Txt("Pending"),
                           !.task_assigned_to = UserId("admin"),
                           !.task_due_date = Txt("2024-01-01")],
      [BaseTaskForm EXCEPT !.task_status = Bogus, !.task_priority = Bogus,
                           !.task_assigned_to = Txt("nobody"),
                           !.task_due_date = Txt("soon")] }

\* forms that fail one check
BadTaskForms ==
    { [BaseTaskForm EXCEPT !.task_title = Sp(1) \o Title101 \o Sp(1)],
      [BaseTaskForm EXCEPT !.task_title = Blank],
      [BaseTaskForm EXCEPT !.task_description = Run("d", MAX_DESCRIPTION + 1)],
      [BaseTaskForm EXCEPT !.task_hours = Txt("1000")],
      [BaseTaskForm EXCEPT !.task_hours = Txt("many")] }

TaskForms == GoodTaskForms \cup BadTaskForms

Malformed == Txt("42")

TaskIdInputs == {NewId("c", k) : k \in 1..MaxTasks} \cup {UnknownId, Malformed}
ProjectIdInputs == {NewId("b", 1), UnknownId, Malformed}

ProjectForms ==
    { [project_name |-> Txt("Gamma"), project_description |-> Empty],
      [project_name |-> Blank, project_description |-> Empty],
      [project_name |-> Run("n", MAX_PROJECT_NAME + 1), project_description |-> Empty],
      [project_name |-> Txt("Gamma"), project_description |-> Run("d", MAX_PROJECT_DESCRIPTION + 1)] }

CommentForms ==
    [comment_task_id : TaskIdInputs,
     comment_text : {Sp(1) \o Txt("ok"), Blank, Run("c", MAX_COMMENT + 1)}]

\* ------------------------------------------------------------ behaviours
\* The whole application, one request at a time, each handler run to its
\* response.
Next ==
    \/ \E form \in LoginForms : Login(form)
    \/ Logout
    \/ \E form \in TaskForms : TaskAdd(form)
    \/ \E id \in TaskIdInputs, form \in TaskForms : TaskUpdate(id, form)
    \/ \E id \in TaskIdInputs : TaskDelete(id)
    \/ \E form \in ProjectForms : ProjectAdd(form)
    \/ \E id \in ProjectIdInputs, form \in ProjectForms : ProjectUpdate(id, form)
    \/ \E id \in ProjectIdInputs : ProjectDelete(id)
    \/ \E form \in CommentForms : CommentAdd(form)
    \/ NotificationsMarkRead
    \/ \E id \in TaskIdInputs : ApiTask(id)
    \/ \E id \in TaskIdInputs : ApiComments(id)
    \/ \E id \in TaskIdInputs \cup {None} : ApiHistory(id)

Spec == Init /\ [][Next]_vars

\* The task pages: sign-in, the three task handlers, mark-read.
NextTasks ==
    \/ \E form \in LoginForms : Login(form)
    \/ Logout
    \/ \E form \in TaskForms : TaskAdd(form)
    \/ \E id \in TaskIdInputs, form \in TaskForms : TaskUpdate(id, form)
    \/ \E id \in TaskIdInputs : TaskDelete(id)
    \/ NotificationsMarkRead

SpecTasks == Init /\ [][NextTasks]_vars

\* Comments on tasks that come and go.
NextComments ==
    \/ \E form \in LoginForms : Login(form)
    \/ Logout
    \/ \E form \in GoodTaskForms : TaskAdd(form)
    \/ \E id \in TaskIdInputs : TaskDelete(id)
    \/ \E form \in CommentForms : CommentAdd(form)

SpecComments == Init /\ [][NextComments]_vars

\* One request at a time, /task/delete one database call at a time.
NextSeq ==
    \/ req = Idle /\ \E form \in LoginForms : Login(form)
    \/ req = Idle /\ Logout
    \/ req = Idle /\ \E form \in TaskForms : TaskAdd(form)
    \/ req = Idle /\ \E id \in TaskIdInputs, form \in TaskForms : TaskUpdate(id, form)
    \/ \E id \in TaskIdInputs : TaskDeleteBegin(id)
    \/ TaskDeleteHistory
    \/ TaskDeleteRemove

SpecSeq == Init /\ [][NextSeq]_vars

\* Every handler that writes, with sign-in and sign-out.
WriteTaskForms == {BaseTaskForm,
                   [BaseTaskForm EXCEPT !.task_status = Txt("Completed"),
                                        !.task_assigned_to = UserId("user1")]}

WriteProjectForms ==
    { [project_name |-> Txt("Gamma"), project_description |-> Empty],
      [project_name |-> Blank, project_description |-> Empty] }

WriteCommentForms ==
    [comment_task_id : {NewId("c", 1), UnknownId}, comment_text : {Sp(1) \o Txt("ok")}]

NextWrites ==
    \/ \E form \in LoginForms : Login(form)
    \/ Logout
    \/ \E form \in WriteTaskForms : TaskAdd(form)
    \/ \E id \in TaskIdInputs, form \in WriteTaskForms : TaskUpdate(id, form)
    \/ \E id \in TaskIdInputs \ {Malformed} : TaskDelete(id)
    \/ \E form \in WriteProjectForms : ProjectAdd(form)
    \/ \E id \in {NewId("b", 1)}, form \in WriteProjectForms : ProjectUpdate(id, form)
    \/ \E id \in ProjectIdInputs : ProjectDelete(id)
    \/ \E form \in WriteCommentForms : CommentAdd(form)
    \/ NotificationsMarkRead

SpecWrites == Init /\ [][NextWrites]_vars

\* Tasks assigned and reassigned, and notifications marked read.
NotifyTaskForms ==
    { BaseTaskForm,
      [BaseTaskForm EXCEPT !.task_assigned_to = UserId("admin")],
      [BaseTaskForm EXCEPT !.task_assigned_to = UserId("user1")] }

NextNotify ==
    \/ \E form \in LoginForms : Login(form)
    \/ Logout
    \/ \E form \in NotifyTaskForms : TaskAdd(form)
    \/ \E id \in TaskIdInputs, form \in NotifyTaskForms : TaskUpdate(id, form)
    \/ NotificationsMarkRead

SpecNotify == Init /\ [][NextNotify]_vars

\* Updates and deletes of a task with their database calls interleaved.
\* The two update forms differ in every stored field; the second keeps the
\* description of a new task and gives a due date that does not parse.
RaceFormX ==
    [task_title |-> TitleA, task_description |-> Txt("x"), task_hours |-> Txt("8"),
     task_due_date |-> Txt("2024-01-01"), task_project_id |-> NewId("b", 1),
     task_assigned_to |-> UserId("user1"),
     task_status |-> Txt("Completed"), task_priority |-> Txt("High")]

RaceFormY ==
    [task_title |-> Txt("B"), task_description |-> Empty, task_hours |-> Txt("999"),
     task_due_date |-> Txt("soon"), task_project_id |-> NewId("b", 2),
     task_assigned_to |-> Empty,
     task_status |-> Txt("Pending"), task_priority |-> Txt("Critical")]

RaceForms == {RaceFormX, RaceFormY}

NextRace ==
    \/ \E form \in LoginForms : Login(form)
    \/ Logout
    \/ TaskAdd([BaseTaskForm EXCEPT !.task_status = Txt("Pending")])
    \/ \E k \in Slots, id \in {NewId("c", 1), UnknownId}, form \in RaceForms :
          RaceUpdateBegin(k, id, form)
    \/ \E k \in Slots : RaceUpdateWrite(k)
    \/ \E k \in Slots : RaceUpdateLog(k)
    \/ \E k \in Slots, id \in {NewId("c", 1), Malformed} : RaceDeleteBegin(k, id)
    \/ \E k \in Slots : RaceDeleteHistory(k)
    \/ \E k \in Slots : RaceDeleteRemove(k)

SpecRace == Init /\ [][NextRace]_vars

\* The dashboard on any stored tasks, on any day.  The stored tasks are ones
\* task_add and task_update can leave: any status and priority, a due date
\* at midnight or none.
DueDays == {IsoDates[d] : d \in DOMAIN IsoDates}
Todays == {Date(k) : k \in DueDays \cup {k + 1 : k \in DueDays}}

StatsTaskDocs ==
    [title : {Run("A", 1)},
     description : {Empty},
     status : {Txt("Pending"), Txt("Completed")},
     priority : {Txt("Medium"), Txt("High"), Txt("Critical")},
     project_id : {None},
     assigned_to : {None},
     due_date : {None} \cup {Midnight(k) : k \in DueDays},
     estimated_hours : {0},
     actual_hours : {0},
     created_by : {UserId("admin")}]

InitStats ==
    /\ session \in {None, UserId("admin")}
    /\ projects = SeedProjects
    /\ \E n \in 0..MaxStatsTasks :
          /\ tasks \in [{NewId("c", k) : k \in 1..n} -> StatsTaskDocs]
          /\ nextTask = n + 1
    /\ comments = <<>>
    /\ history = <<>>
    /\ notifications = <<>>
    /\ nextProject = NumSeedProjects + 1
    /\ last = [op |-> "start", resp |-> Page("", "")]
    /\ req = Idle

NextStats == \E today \in Todays : Dashboard(today)

SpecStats == InitStats /\ [][NextStats]_vars

\* ---------------------------------------------------------------- claims
\* the session cookie is the id of a stored user
SignedIn(sess) == \E u \in users : u._id = sess

\* h2 is h with entries appended
Extends(h2, h) == Len(h2) >= Len(h) /\ SubSeq(h2, 1, Len(h)) = h
Added(h2, h) == SubSeq(h2, Len(h) + 1, Len(h2))

\* C1: a task creation that succeeds leaves exactly one history entry for the
\* new task, CREATED with old "" and new the stored title, and one new unread
\* task_assigned notification for the stored assignee if there is one, none
\* otherwise.
C1_CreateLogsAndNotifies ==
    [][\A form \in TaskForms :
        (last'.op = "task_add" /\ last'.resp.cat = "success" /\ TaskAdd(form)) =>
            LET new == DOMAIN tasks' \ DOMAIN tasks IN
            /\ Cardinality(new) = 1
            /\ LET tid == CHOOSE t \in new : TRUE
                   mine == SelectSeq(history', LAMBDA e : e.task_id = tid)
                   assignee == tasks'[tid].assigned_to
               IN /\ Extends(history', history)
                  /\ Len(Added(history', history)) = 1
                  /\ Len(mine) = 1
                  /\ mine[1].action = "CREATED"
                  /\ mine[1].old_value = Empty
                  /\ mine[1].new_value = tasks'[tid].title
                  /\ Extends(notifications', notifications)
                  /\ IF assignee # None
                     THEN /\ Len(Added(notifications', notifications)) = 1
                          /\ LET n == notifications'[Len(notifications')]
                             IN n.user_id = assignee /\ n.type = "task_assigned" /\ n.read = FALSE
                     ELSE notifications' = notifications
      ]_vars

\* an assigned task has just been created
C1_Witness ==
    /\ last.op = "task_add" /\ last.resp.cat = "success"
    /\ Len(history) = 1 /\ history[1].action = "CREATED"
    /\ Len(notifications) = 1 /\ notifications[1].type = "task_assigned"

\* C2: a task update that succeeds appends one STATUS_CHANGED entry (old the
\* status stored before, new the status stored after) exactly when the stored
\* status changes, one TITLE_CHANGED entry exactly when the stored title
\* changes, and nothing else.
C2_UpdateLogsChanges ==
    [][\A id \in TaskIdInputs, form \in TaskForms :
        (TaskUpdate(id, form) /\ last'.resp.cat = "success") =>
            LET oid == Strip(id)
                added == Added(history', history)
                st == SelectSeq(added, LAMBDA e : e.action = "STATUS_CHANGED")
                ti == SelectSeq(added, LAMBDA e : e.action = "TITLE_CHANGED")
            IN /\ Extends(history', history)
               /\ Len(added) = Len(st) + Len(ti)
               /\ IF tasks[oid].status # tasks'[oid].status
                  THEN /\ Len(st) = 1
                       /\ st[1].old_value = tasks[oid].status
                       /\ st[1].new_value = tasks'[oid].status
                  ELSE st = <<>>
               /\ IF tasks[oid].title # tasks'[oid].title
                  THEN /\ Len(ti) = 1
                       /\ ti[1].old_value = tasks[oid].title
                       /\ ti[1].new_value = tasks'[oid].title
                  ELSE ti = <<>>
      ]_vars

\* the title the handler would store is longer than the limit
TitleTooLong(form) == StrLen(Strip(form.task_title)) > MAX_TITLE

\* C3: a create or an update whose trimmed title is longer than 100 characters
\* is answered with an error and changes no collection.
C3_LongTitleRejected ==
    [][\A form \in TaskForms :
        (/\ TitleTooLong(form)
         /\ \/ last'.op = "task_add" /\ TaskAdd(form)
            \/ last'.op = "task_update" /\ \E id \in TaskIdInputs : TaskUpdate(id, form)) =>
            (last'.resp.cat = "error" /\ UNCHANGED stores)
      ]_vars

\* an update of a stored task was refused for its 101-character title
C3_Witness ==
    /\ last.op = "task_update"
    /\ last.resp.cat = "error"
    /\ last.resp.msg = "Title must be at most 100 characters (got 101)."
    /\ DOMAIN tasks # {}

\* C4: on every endpoint that takes an identifier, a malformed identifier is
\* answered like an unknown one: nothing found (no record in the response),
\* no success, no collection changed.
C4_MalformedIdLikeMissing ==
    [][(\/ \E form \in TaskForms : TaskUpdate(Malformed, form)
        \/ TaskDelete(Malformed)
        \/ \E form \in ProjectForms : ProjectUpdate(Malformed, form)
        \/ ProjectDelete(Malformed)
        \/ \E form \in CommentForms : form.comment_task_id = Malformed /\ CommentAdd(form)
        \/ ApiTask(Malformed)
        \/ ApiComments(Malformed)
        \/ ApiHistory(Malformed))
       => (/\ UNCHANGED stores
           /\ last'.resp.body = <<>>
           /\ last'.resp.cat # "success")
      ]_vars

\* C5: a signed-in request on a well-formed identifier that matches no record
\* is answered with an error and changes no collection.
C5_MissingIdIsNotFound ==
    [][(/\ SignedIn(session)
        /\ \/ \E form \in TaskForms : TaskUpdate(UnknownId, form)
           \/ TaskDelete(UnknownId)
           \/ \E form \in ProjectForms : ProjectUpdate(UnknownId, form)
           \/ ProjectDelete(UnknownId)
           \/ \E form \in CommentForms : form.comment_task_id = UnknownId /\ CommentAdd(form)
           \/ ApiTask(UnknownId))
       => (last'.resp.cat = "error" /\ UNCHANGED stores)
      ]_vars

\* C6: a collection changes only in a request whose session is that of a
\* stored user; a session becomes such only by a login whose username (as
\* trimmed by the handler) and password equal a stored user's; logout clears
\* it; any other request without such a session is redirected to the login
\* page and changes nothing.
C6_OnlySignedInWrites ==
    [][/\ (stores' # stores => SignedIn(session))
       /\ (SignedIn(session') /\ ~SignedIn(session)) =>
              \E form \in LoginForms, u \in users :
                  /\ Login(form)
                  /\ u.username = Strip(form.username)
                  /\ u.password = form.password
                  /\ session' = u._id
       /\ (session' # session => last'.op \in {"login", "logout"})
       /\ (last'.op = "logout" /\ SignedIn(session) /\ Logout) => session' = None
       /\ (~SignedIn(session) /\ last'.op # "login") =>
              (last'.resp = LoginRedirect /\ UNCHANGED <<session, stores>>)
      ]_vars

\* signed in, a task created, signed out, and the next request turned away
C6_Witness ==
    /\ session = None
    /\ DOMAIN tasks # {}
    /\ last.op = "task_add"
    /\ last.resp = LoginRedirect

\* the values the specification allows for a task's status and priority
AllowedStatus == {Txt("Pending"), Txt("In Progress"), Txt("Completed")}
AllowedPriority == {Txt("Low"), Txt("Medium"), Txt("High"), Txt("Critical")}

\* C7: every stored task has an allowed status and an allowed priority.
\* (The specification elides the statuses between Pending and Completed;
\* "In Progress" stands for them.)
C7_StoredStatusAllowed ==
    \A t \in DOMAIN tasks :
        tasks[t].status \in AllowedStatus /\ tasks[t].priority \in AllowedPriority

\* C8: after mark-read every notification of the caller is read and the
\* answer is a success; a second call right after the first leaves the
\* notifications as the first left them.
C8_MarkReadIdempotent ==
    [][(NotificationsMarkRead /\ SignedIn(session)) =>
        /\ last'.resp.cat = "success"
        /\ \A i \in DOMAIN notifications' :
              notifications'[i].user_id = session => notifications'[i].read
        /\ (last.op = "notifications_mark_read" /\ last.resp.cat = "success")
              => notifications' = notifications
      ]_vars

\* the caller has marked a notification of theirs read
C8_Witness ==
    /\ last.op = "notifications_mark_read" /\ last.resp.cat = "success"
    /\ \E i \in DOMAIN notifications : notifications[i].user_id = session /\ notifications[i].read

\* a comment request the specification accepts
CommentOk(form) ==
    /\ Strip(form.comment_task_id) \in DOMAIN tasks
    /\ Strip(form.comment_text) # Empty
    /\ StrLen(Strip(form.comment_text)) <= MAX_COMMENT

\* C9: the comments change only by a comment request whose task id is that
\* of a stored task and whose trimmed text is non-empty and at most 3000
\* characters, and then by that one comment; any other comment request
\* leaves them unchanged.
C9_CommentNeedsTask ==
    [][/\ comments' # comments =>
              \E form \in CommentForms :
                  /\ CommentAdd(form)
                  /\ CommentOk(form)
                  /\ comments' = Append(comments, [task_id |-> Strip(form.comment_task_id),
                                                   user_id |-> session,
                                                   comment_text |-> Strip(form.comment_text)])
       /\ \A form \in CommentForms :
              (CommentAdd(form) /\ ~CommentOk(form)) => comments' = comments
      ]_vars

\* a comment on a stored task has been added
C9_Witness ==
    /\ last.op = "comment_add" /\ last.resp.cat = "success"
    /\ Len(comments) = 1
    /\ comments[1].task_id \in DOMAIN tasks

\* C10: a delete of a stored task writes one DELETED entry (old the title,
\* new "") while the record is still stored, then removes the record and
\* writes nothing more; a delete that finds no task writes no entry.
C10_DeleteLogsThenRemoves ==
    [][/\ \A id \in TaskIdInputs :
              TaskDeleteBegin(id) =>
                  /\ history' = history /\ tasks' = tasks
                  /\ req' # Idle <=> (SignedIn(session) /\ Strip(id) \in DOMAIN tasks)
       /\ TaskDeleteHistory =>
              /\ req.oid \in DOMAIN tasks /\ tasks' = tasks
              /\ Added(history', history) =
                    <<[task_id |-> req.oid, user_id |-> session, action |-> "DELETED",
                       old_value |-> tasks[req.oid].title, new_value |-> Empty]>>
              /\ Extends(history', history)
       /\ TaskDeleteRemove =>
              /\ history' = history
              /\ history[Len(history)].action = "DELETED"
              /\ history[Len(history)].task_id = req.oid
              /\ req.oid \in DOMAIN tasks /\ req.oid \notin DOMAIN tasks'
              /\ last'.resp.cat = "success"
      ]_vars

\* the DELETED entry is written and the record is still stored
C10_Witness ==
    /\ req # Idle /\ req.pc = "remove"
    /\ req.oid \in DOMAIN tasks
    /\ history[Len(history)].action = "DELETED"
    /\ history[Len(history)].old_value = tasks[req.oid].title

\* C11: a task update that succeeds appends exactly one unread task_updated
\* notification for the assignee it stores, whether or not the task had that
\* assignee before, and no notification when it stores no assignee.
C11_UpdateRenotifies ==
    [][\A id \in TaskIdInputs, form \in TaskForms :
        (last'.op = "task_update" /\ last'.resp.cat = "success" /\ TaskUpdate(id, form)) =>
            LET oid == Strip(id)
                assignee == tasks'[oid].assigned_to
                added == Added(notifications', notifications)
            IN /\ Extends(notifications', notifications)
               /\ IF assignee # None
                  THEN /\ Len(added) = 1
                       /\ added[1].user_id = assignee
                       /\ added[1].type = "task_updated"
                       /\ added[1].read = FALSE
                  ELSE added = <<>>
      ]_vars

\* a task has been updated twice with the same assignee stored, and the
\* assignee has two task_updated notifications
C11_Witness ==
    /\ last.op = "task_update" /\ last.resp.cat = "success"
    /\ Len(notifications) = 2
    /\ \A i \in 1..2 : notifications[i].type = "task_updated"
    /\ notifications[1].user_id = notifications[2].user_id
    /\ notifications[1].message = notifications[2].message
    /\ \E t \in DOMAIN tasks : tasks[t].assigned_to = notifications[2].user_id

\* the tasks that are overdue on a day: a due date set, a status other than
\* Completed, the due date before the day
OverdueOn(today) ==
    {t \in DOMAIN tasks : /\ tasks[t].due_date # None
                          /\ tasks[t].status # Txt("Completed")
                          /\ tasks[t].due_date[1].n < today[1].n}

\* C12: the statistics of the dashboard are total = the number of tasks,
\* completed = the number with status Completed, pending = total - completed,
\* high_priority = the number with priority High or Critical, overdue = the
\* number with a due date, a status other than Completed and the due date
\* strictly before today.
C12_StatsCount ==
    [][\A today \in Todays :
        (last'.op = "dashboard" /\ SignedIn(session) /\ Dashboard(today)) =>
            LET done == {t \in DOMAIN tasks : tasks[t].status = Txt("Completed")}
                high == {t \in DOMAIN tasks : tasks[t].priority \in {Txt("High"), Txt("Critical")}}
            IN last'.resp.body =
                  <<[total |-> Cardinality(DOMAIN tasks),
                     completed |-> Cardinality(done),
                     pending |-> Cardinality(DOMAIN tasks) - Cardinality(done),
                     high_priority |-> Cardinality(high),
                     overdue |-> Cardinality(OverdueOn(today))]>>
      ]_vars

\* the dashboard of two tasks with one due date, one Pending and one
\* Completed, counts one overdue on a later day
C12_Witness ==
    /\ last.op = "dashboard" /\ last.resp.code = 200
    /\ Cardinality(DOMAIN tasks) = 2
    /\ \E t, u \in DOMAIN tasks :
          /\ tasks[t].due_date # None /\ tasks[t].due_date = tasks[u].due_date
          /\ tasks[t].status = Txt("Pending") /\ tasks[u].status = Txt("Completed")
    /\ last.resp.body[1].total = 2
    /\ last.resp.body[1].overdue = 1

\* C13: mark-read changes nothing but the read flag of the caller's own
\* notifications: no notification is added or removed, every notification
\* of another user and every other field is as before, and no other
\* collection changes.
C13_MarkReadFrame ==
    [][(last'.op = "notifications_mark_read" /\ NotificationsMarkRead) =>
        /\ Len(notifications') = Len(notifications)
        /\ \A i \in DOMAIN notifications :
              /\ [notifications'[i] EXCEPT !.read = notifications[i].read] = notifications[i]
              /\ notifications'[i].read # notifications[i].read =>
                     (SignedIn(session) /\ notifications[i].user_id = session)
        /\ UNCHANGED <<session, projects, tasks, comments, history>>
      ]_vars

\* the caller has marked their notification read and another user's
\* notification is still unread
C13_Witness ==
    /\ last.op = "notifications_mark_read" /\ last.resp.cat = "success"
    /\ \E i, j \in DOMAIN notifications :
          /\ notifications[i].user_id = session /\ notifications[i].read
          /\ notifications[j].user_id # session /\ ~notifications[j].read

\* C14: in every request the history and the comments keep every entry they
\* had, unchanged and in place, and at most gain entries at the end; when a
\* task is removed, the comments and the history entries that name it stay.
C14_HistoryAndCommentsOnlyGrow ==
    [][/\ Extends(history', history)
       /\ Extends(comments', comments)
       /\ \A t \in DOMAIN tasks \ DOMAIN tasks' :
             /\ SelectSeq(comments', LAMBDA c : c.task_id = t)
                   = SelectSeq(comments, LAMBDA c : c.task_id = t)
             /\ Extends(SelectSeq(history', LAMBDA e : e.task_id = t),
                        SelectSeq(history, LAMBDA e : e.task_id = t))
      ]_vars

\* a task with a comment has been deleted; its comment and its CREATED
\* entry are still stored
C14_Witness ==
    /\ last.op = "task_delete" /\ last.resp.cat = "success"
    /\ \E i \in DOMAIN comments, j \in DOMAIN history :
          /\ comments[i].task_id \notin DOMAIN tasks
          /\ history[j].task_id = comments[i].task_id
          /\ history[j].action = "CREATED"

\* the request in a slot is an update that has read its task
Updating(r, pc) == r # Idle /\ r.kind = "update" /\ r.pc = pc

\* C15: with update requests interleaved, the write of a request leaves the
\* stored task with that request's title, description, status, priority,
\* project, assignee, due date and hours, all eight, and a stored task
\* changes by nothing but such a write: so after both requests the task
\* holds the values of the one that wrote last.
C15_LastWriteWins ==
    [][/\ \A k \in Slots :
            (Updating(SlotsOf(req)[k], "write") /\ RaceUpdateWrite(k)) =>
                LET r == SlotsOf(req)[k] IN
                /\ DOMAIN tasks' = DOMAIN tasks
                /\ \A t \in DOMAIN tasks \ {r.oid} : tasks'[t] = tasks[t]
                /\ r.oid \in DOMAIN tasks =>
                      /\ tasks'[r.oid].title = Strip(r.form.task_title)
                      /\ tasks'[r.oid].description = Strip(r.form.task_description)
                      /\ tasks'[r.oid].status = r.form.task_status
                      /\ tasks'[r.oid].priority = r.form.task_priority
                      /\ tasks'[r.oid].project_id = r.f.project_id
                      /\ tasks'[r.oid].assigned_to = r.f.assigned_to
                      /\ tasks'[r.oid].due_date = r.f.due_date
                      /\ tasks'[r.oid].estimated_hours = r.f.hours_val
       /\ \A t \in DOMAIN tasks \cap DOMAIN tasks' :
            tasks'[t] # tasks[t] =>
                \E k \in Slots : /\ Updating(SlotsOf(req)[k], "write")
                                  /\ SlotsOf(req)[k].oid = t
                                  /\ RaceUpdateWrite(k)
      ]_vars

\* two updates of one task have both read it before either wrote, both
\* have written, and the task holds the values of one of them
C15_Witness ==
    /\ Updating(SlotsOf(req)[1], "log") /\ Updating(SlotsOf(req)[2], "log")
    /\ SlotsOf(req)[1].oid = SlotsOf(req)[2].oid
    /\ SlotsOf(req)[1].task = SlotsOf(req)[2].task
    /\ SlotsOf(req)[1].form # SlotsOf(req)[2].form
    /\ SlotsOf(req)[1].oid \in DOMAIN tasks
    /\ tasks[SlotsOf(req)[1].oid] # SlotsOf(req)[1].task
    /\ \E k \in Slots : tasks[SlotsOf(req)[k].oid].title = SlotsOf(req)[k].f.title

\* the tasks whose history has a DELETED entry
Deleted(h) == {h[i].task_id : i \in {j \in DOMAIN h : h[j].action = "DELETED"}}

\* C16: with updates and deletes of a task interleaved, once the history
\* has a DELETED entry for a task it gains no further entry for that task.
C16_DeletedIsFinal ==
    [][\A t \in Deleted(history) :
          SelectSeq(history', LAMBDA e : e.task_id = t)
            = SelectSeq(history, LAMBDA e : e.task_id = t)
      ]_vars

====
